---- MODULE Spec2Model ----
(***************************************************************************)
(* Model of etl.py (World Bank ETL): clean_data, transform_data and        *)
(* load_to_postgres.                                                       *)
(*                                                                         *)
(* Text is a sequence of code points, so that str.strip, str.isdigit,      *)
(* int(label), str(year) and the ordering of strings are computed.         *)
(* A cell of a table is <<"nan">>, <<"num", n, d>> (the float n/d, d > 0,  *)
(* in lowest terms), <<"inf">>, <<"-inf">> or <<"str", text>>.             *)
(* The region and incomegroup columns of the main table travel with        *)
(* country_name through every step and are not modelled separately.        *)
(***************************************************************************)
EXTENDS Integers, Sequences, FiniteSets, TLC

VARIABLES main_df, meta_df, pop_df, fill_method, pc, raised,
          gdp_long, joined, merged, final_raw, final_df,
          db_exists, committed, work, conn, conns_open, step,
          cause, propagated, rolled_back, failed_at, injected, run, history

tvars == <<main_df, meta_df, pop_df, fill_method, pc, raised,
           gdp_long, joined, merged, final_raw>>
lvars == <<db_exists, committed, work, conn, conns_open, step,
           cause, propagated, rolled_back, failed_at, injected, run, history>>
vars == <<tvars, final_df, lvars>>

(***************************************************************************)
(* Bounds                                                                  *)
(***************************************************************************)
MaxMainRows == 2
MaxPopRows == 2
MaxFinalRows == 3
MaxRuns == 2

(***************************************************************************)
(* Text                                                                    *)
(***************************************************************************)
DotDot == <<46, 46>>
EmptyText == <<>>
OneSpace == <<32>>
TwoSpaces == <<32, 32>>
AAA == <<65, 65, 65>>
BBB == <<66, 66, 66>>
NameA == <<65>>
Kenia == <<75, 101, 110, 105, 97>>
KeniaSp == <<75, 101, 110, 105, 97, 32>>
Kenya == <<75, 101, 110, 121, 97>>
CoteAscii == <<67, 111, 116, 101, 32, 100, 39, 73, 118, 111, 105, 114, 101>>
CoteAccent == <<67, 244, 116, 101, 32, 100, 39, 73, 118, 111, 105, 114, 101>>
Text3 == <<51>>
Y1959 == <<49, 57, 53, 57>>
Y2008 == <<50, 48, 48, 56>>
Y2009 == <<50, 48, 48, 57>>
Y2010 == <<50, 48, 49, 48>>
Y2011 == <<50, 48, 49, 49>>

IsSpace(c) == c = 32 \/ c \in 9..13

\* str.isdigit
IsDigit(s) == Len(s) > 0 /\ \A i \in 1..Len(s) : s[i] \in 48..57

RECURSIVE ToInt(_)
\* int(label) of a string of decimal digits
ToInt(s) ==
    IF Len(s) = 0 THEN 0
    ELSE 10 * ToInt(SubSeq(s, 1, Len(s) - 1)) + (s[Len(s)] - 48)

RECURSIVE StrOfInt(_)
\* str(y) of a non-negative integer
StrOfInt(y) ==
    IF y < 10 THEN <<48 + y>>
    ELSE Append(StrOfInt(y \div 10), 48 + (y % 10))

\* str.strip
Strip(s) ==
    LET keep == {i \in 1..Len(s) : ~IsSpace(s[i])}
    IN  IF keep = {} THEN <<>>
        ELSE LET lo == CHOOSE i \in keep : \A j \in keep : i <= j
                 hi == CHOOSE i \in keep : \A j \in keep : i >= j
             IN  SubSeq(s, lo, hi)

RECURSIVE TextLess(_, _)
\* s < t for Python strings
TextLess(s, t) ==
    IF Len(t) = 0 THEN FALSE
    ELSE IF Len(s) = 0 THEN TRUE
    ELSE IF s[1] # t[1] THEN s[1] < t[1]
    ELSE TextLess(Tail(s), Tail(t))

(***************************************************************************)
(* Cells and float arithmetic                                              *)
(***************************************************************************)
NaN == <<"nan">>
Inf == <<"inf">>
NegInf == <<"-inf">>
Str(s) == <<"str", s>>

IsNaN(c) == c[1] = "nan"
IsStr(c) == c[1] = "str"
IsNum(c) == c[1] = "num"

Abs(n) == IF n < 0 THEN -n ELSE n

RECURSIVE GCD(_, _)
GCD(a, b) == IF b = 0 THEN a ELSE GCD(b, a % b)

\* the float n/d, d # 0
Num(n, d) ==
    LET g == GCD(Abs(n), Abs(d))
        s == IF d < 0 THEN -1 ELSE 1
    IN  <<"num", (s * n) \div g, (s * d) \div g>>

Sign(c) ==
    IF c = Inf THEN 1 ELSE IF c = NegInf THEN -1
    ELSE IF c[2] > 0 THEN 1 ELSE IF c[2] < 0 THEN -1 ELSE 0

SignedInf(s) == IF s > 0 THEN Inf ELSE IF s < 0 THEN NegInf ELSE NaN

\* a / b of two float64 values as numpy divides them (no exception)
FDiv(a, b) ==
    IF IsNaN(a) \/ IsNaN(b) THEN NaN
    ELSE IF ~IsNum(b) THEN (IF IsNum(a) THEN Num(0, 1) ELSE NaN)
    ELSE IF b[2] = 0 THEN SignedInf(Sign(a))
    ELSE IF ~IsNum(a) THEN SignedInf(Sign(a) * Sign(b))
    ELSE Num(a[2] * b[3], a[3] * b[2])

\* a - 1
FSub1(a) == IF IsNum(a) THEN Num(a[2] - a[3], a[3]) ELSE a

RECURSIVE Pow10(_)
Pow10(k) == IF k = 0 THEN 1 ELSE 10 * Pow10(k - 1)

\* Series.round(k): nearest multiple of 10^-k, ties to even
Round(a, k) ==
    IF ~IsNum(a) THEN a
    ELSE LET s == a[2] * Pow10(k)
             q == s \div a[3]
             r == s % a[3]
             up == 2 * r > a[3] \/ (2 * r = a[3] /\ q % 2 = 1)
         IN  Num(IF up THEN q + 1 ELSE q, Pow10(k))

(***************************************************************************)
(* Sequence helpers                                                        *)
(***************************************************************************)
RECURSIVE KeepAt(_, _, _)
\* the subsequence of s at the indices in keep, from index i on
KeepAt(s, keep, i) ==
    IF i > Len(s) THEN <<>>
    ELSE (IF i \in keep THEN <<s[i]>> ELSE <<>>) \o KeepAt(s, keep, i + 1)

RECURSIVE Concat(_)
Concat(ss) == IF Len(ss) = 0 THEN <<>> ELSE Head(ss) \o Concat(Tail(ss))

SeqsUpTo(S, lo, hi) == UNION {[1..n -> S] : n \in lo..hi}

(***************************************************************************)
(* PART 2: clean_data                                                      *)
(***************************************************************************)
\* DataFrame.replace(["..", "", " "], np.nan) on one cell
Replace(c) ==
    IF IsStr(c) /\ c[2] \in {DotDot, EmptyText, OneSpace} THEN NaN ELSE c

ReplaceRow(r) ==
    [country_name |-> Replace(r.country_name),
     country_code |-> Replace(r.country_code),
     vals |-> [i \in DOMAIN r.vals |-> Replace(r.vals[i])]]

\* year_cols = [col for col in main_df.columns if col.isdigit()], as indices
YearCols(df) == {i \in 1..Len(df.ycols) : IsDigit(df.ycols[i])}

\* float(x) of one cell; <<"ValueError">> when Python raises
AsFloat(c) ==
    IF ~IsStr(c) THEN c
    ELSE IF IsDigit(Strip(c[2])) THEN Num(ToInt(Strip(c[2])), 1)
    ELSE <<"ValueError">>

AsTypeFloat(df) ==
    [df EXCEPT !.rows = [k \in DOMAIN df.rows |->
        [df.rows[k] EXCEPT !.vals = [i \in DOMAIN df.rows[k].vals |->
            IF i \in YearCols(df) THEN AsFloat(df.rows[k].vals[i])
            ELSE df.rows[k].vals[i]]]]]

AsTypeRaises(df) ==
    \E k \in DOMAIN df.rows : \E i \in YearCols(df) :
        AsFloat(df.rows[k].vals[i]) = <<"ValueError">>

\* DataFrame.drop_duplicates(): the first of each group of equal rows stays
DropDuplicates(rows) ==
    KeepAt(rows, {k \in 1..Len(rows) : \A j \in 1..(k - 1) : rows[j] # rows[k]}, 1)

\* x.str.strip() on an object column
StripCell(c) == IF IsStr(c) THEN Str(Strip(c[2])) ELSE c

\* main_df['country_name'].replace(country_map)
CountryMap(c) ==
    IF c = Str(Kenia) THEN Str(Kenya)
    ELSE IF c = Str(CoteAscii) THEN Str(CoteAccent)
    ELSE c

\* valid_years = [str(y) for y in range(1960, 2024)]
ValidYears == {StrOfInt(y) : y \in 1960..2023}

\* columns that are entirely null: main_df.columns[main_df.isnull().all()]
EmptyYearCols(df) ==
    {i \in 1..Len(df.ycols) : \A k \in DOMAIN df.rows : IsNaN(df.rows[k].vals[i])}

EmptyIdCols(df) ==
    {c \in df.id_cols :
        \A k \in DOMAIN df.rows :
            IsNaN(IF c = "country_name" THEN df.rows[k].country_name
                  ELSE df.rows[k].country_code)}

DropYearCols(df, drop) ==
    LET keep == (1..Len(df.ycols)) \ drop
    IN  [df EXCEPT !.ycols = KeepAt(df.ycols, keep, 1),
                   !.rows = [k \in DOMAIN df.rows |->
                       [df.rows[k] EXCEPT !.vals = KeepAt(df.rows[k].vals, keep, 1)]]]

\* lines 85-97 applied to the main table (when astype does not raise)
CleanMain(df) ==
    LET replaced == [df EXCEPT !.rows = [k \in DOMAIN df.rows |-> ReplaceRow(df.rows[k])]]
        floated == AsTypeFloat(replaced)
        deduped == [floated EXCEPT !.rows = DropDuplicates(floated.rows)]
        stripped == [deduped EXCEPT !.rows = [k \in DOMAIN deduped.rows |->
                        [deduped.rows[k] EXCEPT
                            !.country_name = StripCell(@),
                            !.country_code = StripCell(@)]]]
        mapped == [stripped EXCEPT !.rows = [k \in DOMAIN stripped.rows |->
                        [stripped.rows[k] EXCEPT !.country_name = CountryMap(@)]]]
        invalid == {i \in YearCols(mapped) : mapped.ycols[i] \notin ValidYears}
        ranged == DropYearCols(mapped, invalid)
        noid == [ranged EXCEPT !.id_cols = @ \ EmptyIdCols(ranged)]
    IN  DropYearCols(noid, EmptyYearCols(noid))

(***************************************************************************)
(* Inputs of the pipeline: the tables as extract_data hands them over.     *)
(* A column read from a CSV file is numeric (numbers and NaN) or of object *)
(* type (strings and NaN), never a mixture of numbers and strings.         *)
(***************************************************************************)
IdCols == {"country_name", "country_code"}

MainYcols == <<Y1959, Y2008, Y2009, Y2010, Y2011>>
MainRow(n, c, v) ==
    [country_name |-> Str(n), country_code |-> Str(c),
     vals |-> <<Num(1, 1), Num(6, 1), v, Num(12, 1), Num(6, 1)>>]
MainRowPool ==
    {MainRow(n, c, v) : n \in {NameA, KeniaSp}, c \in {AAA, BBB},
                        v \in {NaN, Num(3, 1), Str(DotDot)}}
    \cup {MainRow(TwoSpaces, AAA, Num(3, 1)), MainRow(NameA, AAA, Str(Text3)),
          MainRow(NameA, BBB, Str(TwoSpaces))}

PopYcols == <<Y2008, Y2009, Y2010, Y2011>>
PopRowPool ==
    {[country_name |-> Str(n), country_code |-> Str(AAA),
      vals |-> <<Num(2, 1), v, w, Num(2, 1)>>] :
        n \in {NameA, Kenia},
        v \in {Num(0, 1), Num(3, 1)},
        w \in {Num(2, 1), Str(DotDot)}}

\* a population file that has no 2009 column
PopYcolsShort == <<Y2008, Y2010, Y2011>>
PopRowPoolShort ==
    {[country_name |-> Str(n), country_code |-> Str(AAA),
      vals |-> <<Num(2, 1), Num(2, 1), Num(2, 1)>>] : n \in {NameA, Kenia}}

Homogeneous(rows) ==
    \A k, j \in DOMAIN rows : \A i \in DOMAIN rows[k].vals :
        ~(IsNum(rows[k].vals[i]) /\ IsStr(rows[j].vals[i]))

MainTables ==
    {[id_cols |-> IdCols, ycols |-> MainYcols, rows |-> rs] :
        rs \in {x \in SeqsUpTo(MainRowPool, 1, MaxMainRows) : Homogeneous(x)}}

PopTables ==
    {[id_cols |-> IdCols, ycols |-> PopYcols, rows |-> rs] :
        rs \in {x \in SeqsUpTo(PopRowPool, 1, MaxPopRows) : Homogeneous(x)}}
    \cup {[id_cols |-> IdCols, ycols |-> PopYcolsShort, rows |-> rs] :
        rs \in SeqsUpTo(PopRowPoolShort, 1, MaxPopRows)}

MetaTables ==
    {<<[country_code |-> Str(AAA), region |-> r],
       [country_code |-> Str(BBB), region |-> Str(NameA)]>> :
        r \in {Str(NameA), Str(DotDot)}}

(***************************************************************************)
(* PART 3: transform_data                                                  *)
(***************************************************************************)
\* value_vars = [col for col in main_clean.columns if col.isdigit()]
ValueVars(df) == KeepAt(df.ycols, YearCols(df), 1)

ColIndex(df, label) == CHOOSE i \in 1..Len(df.ycols) : df.ycols[i] = label

\* pd.melt raises KeyError when an id or value column is not in the frame
MeltRaises(df, value_vars) ==
    \/ df.id_cols # IdCols
    \/ \E v \in DOMAIN value_vars :
          \A i \in 1..Len(df.ycols) : df.ycols[i] # value_vars[v]

\* pd.melt(df, id_vars, value_vars) followed by ['year'].astype(int):
\* one block of rows per value column, in column order
Melt(df, value_vars, value_name) ==
    Concat([v \in DOMAIN value_vars |->
        [k \in DOMAIN df.rows |->
            [country_name |-> df.rows[k].country_name,
             country_code |-> df.rows[k].country_code,
             year |-> ToInt(value_vars[v])]
            @@ (value_name :> df.rows[k].vals[ColIndex(df, value_vars[v])])]])

SameKey(g, p) ==
    /\ g.country_code = p.country_code
    /\ g.country_name = p.country_name
    /\ g.year = p.year

\* gdp_long.merge(pop_long, on=[code, name, year], how='left'): left order is
\* kept, a left row gives one row per matching right row, or one row with a
\* missing population when nothing matches
LeftJoin(left, right) ==
    Concat([i \in DOMAIN left |->
        LET hits == {j \in DOMAIN right : SameKey(left[i], right[j])}
        IN  IF hits = {}
            THEN <<left[i] @@ ("population" :> NaN)>>
            ELSE [n \in 1..Cardinality(hits) |->
                    LET j == CHOOSE h \in hits :
                                Cardinality({x \in hits : x < h}) = n - 1
                    IN  left[i] @@ ("population" :> right[j].population)]])

\* a / b raises TypeError on a string operand
DivRaises(a, b) == IsStr(a) \/ IsStr(b)

CellLess(a, b) ==
    IF IsNaN(a) THEN FALSE ELSE IF IsNaN(b) THEN TRUE ELSE TextLess(a[2], b[2])

\* sort_values(['country_code', 'year'])
LessCodeYear(a, b) ==
    \/ CellLess(a.country_code, b.country_code)
    \/ a.country_code = b.country_code /\ a.year < b.year

\* sort_values(['country_name', 'year'])
LessNameYear(a, b) ==
    \/ CellLess(a.country_name, b.country_name)
    \/ a.country_name = b.country_name /\ a.year < b.year

\* stable sort of rows, less being the pairs <<i, j>> with rows[i] before
\* rows[j] in the sort order: rows that compare equal keep their order
StableSort(rows, less) ==
    LET rank == [i \in DOMAIN rows |->
                    Cardinality({j \in DOMAIN rows :
                        <<j, i>> \in less \/ (<<i, j>> \notin less /\ j < i)})]
    IN  [p \in DOMAIN rows |-> rows[CHOOSE i \in DOMAIN rows : rank[i] = p - 1]]

SortByCodeYear(rows) ==
    StableSort(rows, {ij \in (DOMAIN rows) \X (DOMAIN rows) :
                        LessCodeYear(rows[ij[1]], rows[ij[2]])})

SortByNameYear(rows) ==
    StableSort(rows, {ij \in (DOMAIN rows) \X (DOMAIN rows) :
                        LessNameYear(rows[ij[1]], rows[ij[2]])})

\* position of the previous row of the same group, 0 when there is none
PrevInGroup(rows, i) ==
    IF i > 1 /\ rows[i - 1].country_code = rows[i].country_code THEN i - 1 ELSE 0

RECURSIVE Filled(_, _, _)
\* groupby(...).ffill() of the ratio under fill_method 'pad', the ratio
\* itself under fill_method None
Filled(rows, i, method) ==
    IF method = "pad" /\ IsNaN(rows[i].gdp_per_capita) /\ PrevInGroup(rows, i) # 0
    THEN Filled(rows, PrevInGroup(rows, i), method)
    ELSE rows[i].gdp_per_capita

\* one element of groupby('country_code')['gdp_per_capita'].pct_change():
\* filled / filled.shift(1) - 1 inside the group
PctChange(rows, i, method) ==
    IF PrevInGroup(rows, i) = 0 THEN NaN
    ELSE FSub1(FDiv(Filled(rows, i, method),
                    Filled(rows, PrevInGroup(rows, i), method)))

GdpLong(main) == Melt(main, ValueVars(main), "gdp")
PopLong(main, pop) == Melt(pop, ValueVars(main), "population")

\* line 123 raises
RatioRaises(j) ==
    \E i \in DOMAIN j : DivRaises(j[i].gdp, j[i].population)

\* line 123 and the sort of line 124
WithRatio(j) ==
    SortByCodeYear([i \in DOMAIN j |->
        j[i] @@ ("gdp_per_capita" :> FDiv(j[i].gdp, j[i].population))])

\* line 125
WithChange(sorted, method) ==
    [i \in DOMAIN sorted |->
        sorted[i] @@ ("gdp_pc_change" :> PctChange(sorted, i, method))]

\* line 142: keep 2010..2020
Filtered(sorted) ==
    KeepAt(sorted, {i \in DOMAIN sorted :
                        sorted[i].year >= 2010 /\ sorted[i].year <= 2020}, 1)

\* lines 147-148
Rounded(rows) ==
    [i \in DOMAIN rows |->
        [rows[i] EXCEPT !.gdp = Round(@, 2),
                        !.gdp_per_capita = Round(@, 2),
                        !.gdp_pc_change = Round(@, 4)]]

(***************************************************************************)
(* The sink's state before load_to_postgres has run                        *)
(***************************************************************************)
NoTables == [exists |-> FALSE, countries |-> <<>>, facts |-> <<>>, pk_facts |-> FALSE]

LoadIdle ==
    /\ committed = NoTables
    /\ work = NoTables
    /\ conn = "None"
    /\ conns_open = {}
    /\ step = "start"
    /\ cause = "none"
    /\ propagated = "none"
    /\ rolled_back = FALSE
    /\ failed_at = "none"
    /\ injected = FALSE
    /\ run = 1
    /\ history = <<>>

(***************************************************************************)
(* The pipeline up to the final export: clean_data, then transform_data    *)
(***************************************************************************)
InitT ==
    /\ main_df \in MainTables
    /\ pop_df \in PopTables
    /\ meta_df \in MetaTables
    /\ fill_method \in {"pad", "none"}
    /\ pc = "extracted"
    /\ raised = "none"
    /\ gdp_long = <<>>
    /\ joined = <<>>
    /\ merged = <<>>
    /\ final_raw = <<>>
    /\ final_df = <<>>
    /\ db_exists = FALSE
    /\ LoadIdle

Replaced(df) == [df EXCEPT !.rows = [k \in DOMAIN df.rows |-> ReplaceRow(df.rows[k])]]

\* clean_data: the main table is cleaned in place, the metadata and the
\* population tables are written out and returned as they came
CleanData ==
    /\ pc = "extracted"
    /\ IF AsTypeRaises(Replaced(main_df))
       THEN /\ main_df' = Replaced(main_df)
            /\ pc' = "raised"
            /\ raised' = "ValueError@87"
       ELSE /\ main_df' = CleanMain(main_df)
            /\ pc' = "cleaned"
            /\ raised' = "none"
    /\ UNCHANGED <<meta_df, pop_df, fill_method, gdp_long, joined, merged,
                   final_raw, final_df, lvars>>

\* transform_data
TransformData ==
    /\ pc = "cleaned"
    /\ IF MeltRaises(main_df, ValueVars(main_df)) \/ MeltRaises(pop_df, ValueVars(main_df))
       THEN /\ pc' = "raised"
            /\ raised' = (IF MeltRaises(main_df, ValueVars(main_df))
                          THEN "KeyError@114" ELSE "KeyError@118")
            /\ gdp_long' = (IF MeltRaises(main_df, ValueVars(main_df))
                            THEN <<>> ELSE GdpLong(main_df))
            /\ UNCHANGED <<joined, merged, final_raw, final_df>>
       ELSE \E g \in {GdpLong(main_df)} :
            \E j \in {LeftJoin(g, PopLong(main_df, pop_df))} :
                /\ gdp_long' = g
                /\ joined' = j
                /\ IF RatioRaises(j)
                   THEN /\ pc' = "raised"
                        /\ raised' = "TypeError@123"
                        /\ UNCHANGED <<merged, final_raw, final_df>>
                   ELSE \E c \in {WithChange(WithRatio(j), fill_method)} :
                        \E m \in {SortByNameYear(c)} :
                        \E f \in {Filtered(m)} :
                            /\ merged' = m
                            /\ final_raw' = f
                            /\ final_df' = Rounded(f)
                            /\ pc' = "transformed"
                            /\ raised' = "none"
    /\ UNCHANGED <<main_df, meta_df, pop_df, fill_method, lvars>>

NextT == CleanData \/ TransformData

SpecT == InitT /\ [][NextT]_vars

(***************************************************************************)
(* Claims about clean_data and transform_data                              *)
(***************************************************************************)
Cleaned == pc \in {"cleaned", "transformed"} \/ (pc = "raised" /\ raised # "ValueError@87")

\* the unpivoted row a joined row was made from
LeftPart(r) ==
    [country_name |-> r.country_name, country_code |-> r.country_code,
     year |-> r.year, gdp |-> r.gdp]

\* C1: the left join of the unpivoted metric-A rows with the unpivoted
\* population rows has exactly as many rows as the metric-A table and holds
\* each metric-A row exactly once, whatever the population table holds.
C1_LeftJoinKeepsEachRowOnce ==
    pc = "transformed" =>
        /\ Len(joined) = Len(gdp_long)
        /\ \A i \in DOMAIN gdp_long : LeftPart(joined[i]) = gdp_long[i]

\* the change of ratio cur relative to ratio prev
ChangeOf(cur, prev) == FSub1(FDiv(cur, prev))

\* C2: per entity_code the change of the first year is missing, and the
\* change of every other row is the change of its ratio relative to the
\* ratio of the immediately preceding calendar year of the same entity_code.
C2_ChangeIsAgainstPrecedingYear ==
    pc = "transformed" =>
        \A i \in DOMAIN merged :
            IF \A j \in DOMAIN merged :
                  merged[j].country_code = merged[i].country_code
                      => merged[j].year >= merged[i].year
            THEN IsNaN(merged[i].gdp_pc_change)
            ELSE \E j \in DOMAIN merged :
                    /\ merged[j].country_code = merged[i].country_code
                    /\ merged[j].year = merged[i].year - 1
                    /\ merged[i].gdp_pc_change =
                          ChangeOf(merged[i].gdp_per_capita, merged[j].gdp_per_capita)

\* C3: the 2010 row of the final export carries, before rounding, the change
\* of the 2010 ratio relative to the 2009 ratio of the same entity, and the
\* 2009 row is not exported.
C3_BoundaryYearKeepsItsChange ==
    pc = "transformed" =>
        /\ \A i \in DOMAIN final_raw : final_raw[i].year # 2009
        /\ \A i \in DOMAIN final_raw :
              (/\ final_raw[i].year = 2010
               /\ \E j \in DOMAIN merged :
                     /\ merged[j].country_code = final_raw[i].country_code
                     /\ merged[j].year = 2009)
              => \E j \in DOMAIN merged :
                     /\ merged[j].country_code = final_raw[i].country_code
                     /\ merged[j].year = 2009
                     /\ final_raw[i].gdp_pc_change =
                           ChangeOf(final_raw[i].gdp_per_capita, merged[j].gdp_per_capita)

\* C7: every row of the unpivoted metric-A table has a year within
\* [1960, 2023] and no two rows share an (entity_code, year) pair.
C7_YearInRangeAndKeyUnique ==
    /\ \A i \in DOMAIN gdp_long : gdp_long[i].year \in 1960..2023
    /\ \A i, j \in DOMAIN gdp_long :
          (/\ gdp_long[i].country_code = gdp_long[j].country_code
           /\ gdp_long[i].year = gdp_long[j].year) => i = j

\* C8: the ratio derivation never raises, and the ratio of a row whose
\* population is zero or missing is a missing or undefined value.
C8_RatioNeverRaises ==
    /\ raised # "TypeError@123"
    /\ pc = "transformed" =>
          \A i \in DOMAIN merged :
              (IsNaN(merged[i].population) \/ merged[i].population = Num(0, 1))
                  => ~IsNum(merged[i].gdp_per_capita)

IsSentinel(c) == IsStr(c) /\ (c[2] = DotDot \/ Strip(c[2]) = <<>>)

NoSentinel(df) ==
    \A k \in DOMAIN df.rows :
        /\ ~IsSentinel(df.rows[k].country_name)
        /\ ~IsSentinel(df.rows[k].country_code)
        /\ \A i \in DOMAIN df.rows[k].vals : ~IsSentinel(df.rows[k].vals[i])

YearColsAreFloat(df) ==
    \A k \in DOMAIN df.rows : \A i \in YearCols(df) : ~IsStr(df.rows[k].vals[i])

\* C9: after clean_data has returned no field of the main, metadata and
\* population tables holds an empty string, a whitespace-only string or the
\* double-dot placeholder, and the year columns hold floats or missing.
C9_NoSentinelAfterClean ==
    Cleaned =>
        /\ NoSentinel(main_df) /\ NoSentinel(pop_df)
        /\ \A k \in DOMAIN meta_df :
              ~IsSentinel(meta_df[k].country_code) /\ ~IsSentinel(meta_df[k].region)
        /\ YearColsAreFloat(main_df) /\ YearColsAreFloat(pop_df)

(***************************************************************************)
(* PART 4: load_to_postgres                                                *)
(*                                                                         *)
(* committed is what the store holds durably, work is what the open        *)
(* transaction of the second connection sees.  conn is the local variable  *)
(* conn of the function, conns_open the connections that are open.         *)
(***************************************************************************)
FinalRowPool ==
    {[country_name |-> Str(n), country_code |-> Str(c), year |-> y, gdp |-> Num(12, 1)] :
        n \in {NameA, Kenya}, c \in {AAA, BBB}, y \in {2010, 2011}}

\* final exports: sorted by (country_name, year), as line 141 leaves them
FinalExports ==
    {f \in SeqsUpTo(FinalRowPool, 0, MaxFinalRows) :
        \A i, j \in DOMAIN f : i < j => ~LessNameYear(f[j], f[i])}

InitL ==
    /\ final_df \in FinalExports
    /\ db_exists \in BOOLEAN
    /\ LoadIdle
    /\ main_df = [id_cols |-> IdCols, ycols |-> <<>>, rows |-> <<>>]
    /\ pop_df = [id_cols |-> IdCols, ycols |-> <<>>, rows |-> <<>>]
    /\ meta_df = <<>>
    /\ fill_method = "none"
    /\ pc = "transformed"
    /\ raised = "none"
    /\ gdp_long = <<>>
    /\ joined = <<>>
    /\ merged = <<>>
    /\ final_raw = <<>>

\* line 202: final_df[[code, name, region, incomegroup]].drop_duplicates()
CountriesOf(f) ==
    DropDuplicates([i \in DOMAIN f |->
        [country_code |-> f[i].country_code, country_name |-> f[i].country_name]])

\* lines 205-208
FactsOf(f) ==
    [i \in DOMAIN f |->
        [country_code |-> f[i].country_code, indicator_code |-> "NY.GDP.MKTP.CD",
         year |-> f[i].year, value |-> f[i].gdp]]

EmptyTables == [exists |-> TRUE, countries |-> <<>>, facts |-> <<>>, pk_facts |-> FALSE]

\* PRIMARY KEY (country_code) of countries
CountriesKeyClash(rows) ==
    \E i, j \in DOMAIN rows : i # j /\ rows[i].country_code = rows[j].country_code

\* PRIMARY KEY (country_code, indicator_code, year) of facts
FactsKeyClash(rows) ==
    \E i, j \in DOMAIN rows :
        /\ i # j
        /\ rows[i].country_code = rows[j].country_code
        /\ rows[i].indicator_code = rows[j].indicator_code
        /\ rows[i].year = rows[j].year

RunRecord(outcome, inj) ==
    [outcome |-> outcome, injected |-> inj,
     countries |-> Len(committed'.countries), facts |-> Len(committed'.facts)]

\* lines 265-269: the except block, entered with error e while the local
\* conn is c and the connections in open are open.  rollback() on a closed
\* connection raises InterfaceError, which then leaves the function.
Handler(e, inj, c, open) ==
    /\ cause' = e
    /\ failed_at' = step
    /\ injected' = inj
    /\ conn' = c
    /\ conns_open' = open
    /\ IF c = "None"
       THEN /\ propagated' = e
            /\ rolled_back' = FALSE
            /\ work' = work
       ELSE IF c \notin open
       THEN /\ propagated' = "InterfaceError"
            /\ rolled_back' = FALSE
            /\ work' = work
       ELSE /\ propagated' = e
            /\ rolled_back' = TRUE
            /\ work' = committed
    /\ step' = "raised"
    /\ committed' = committed
    /\ history' = Append(history, RunRecord("raised", inj))

\* a step that went through
Goes(next) ==
    /\ step' = next
    /\ UNCHANGED <<cause, propagated, rolled_back, failed_at, injected, run, history>>

\* line 166-168
Connect1 ==
    /\ step = "start"
    /\ \/ /\ conn' = "c1"
          /\ conns_open' = {"c1"}
          /\ Goes("connected1")
          /\ UNCHANGED <<db_exists, committed, work>>
       \/ /\ Handler("OperationalError", TRUE, "None", {})
          /\ UNCHANGED <<db_exists, run>>
    /\ UNCHANGED <<tvars, final_df>>

\* lines 170-174: check-then-create on the autocommit connection
EnsureDatabase ==
    /\ step = "connected1"
    /\ \/ /\ db_exists' = TRUE
          /\ Goes("ensured")
          /\ UNCHANGED <<committed, work, conn, conns_open>>
       \/ /\ Handler("OperationalError", TRUE, conn, conns_open)
          /\ UNCHANGED <<db_exists, run>>
    /\ UNCHANGED <<tvars, final_df>>

\* lines 175-179: the first connection is closed, then the second is opened
\* and assigned to conn
Connect2 ==
    /\ step = "ensured"
    /\ \/ /\ conn' = "c2"
          /\ conns_open' = (conns_open \ {"c1"}) \cup {"c2"}
          /\ work' = committed
          /\ Goes("connected2")
          /\ UNCHANGED <<db_exists, committed>>
       \/ /\ Handler("OperationalError", TRUE, conn, conns_open \ {"c1"})
          /\ UNCHANGED <<db_exists, run>>
    /\ UNCHANGED <<tvars, final_df>>

\* a sink that creates the tables only when they are missing
RecreateTablesKeeping ==
    /\ step = "connected2"
    /\ \/ /\ work' = (IF work.exists THEN work ELSE EmptyTables)
          /\ Goes("recreated")
          /\ UNCHANGED <<db_exists, committed, conn, conns_open>>
       \/ /\ Handler("OperationalError", TRUE, conn, conns_open)
          /\ UNCHANGED <<db_exists, run>>
    /\ UNCHANGED <<tvars, final_df>>

\* lines 182-196: DROP TABLE IF EXISTS facts, countries; CREATE TABLE ...
RecreateTables ==
    /\ step = "connected2"
    /\ \/ /\ work' = EmptyTables
          /\ Goes("recreated")
          /\ UNCHANGED <<db_exists, committed, conn, conns_open>>
       \/ /\ Handler("OperationalError", TRUE, conn, conns_open)
          /\ UNCHANGED <<db_exists, run>>
    /\ UNCHANGED <<tvars, final_df>>

\* conn.commit() of lines 197 and 236, and the commit that ends the
\* `with conn:` block of line 210
Commit(from, to) ==
    /\ step = from
    /\ \/ /\ committed' = work
          /\ Goes(to)
          /\ UNCHANGED <<db_exists, work, conn, conns_open>>
       \/ /\ Handler("OperationalError", TRUE, conn, conns_open)
          /\ UNCHANGED <<db_exists, run>>
    /\ UNCHANGED <<tvars, final_df>>

CommitTables == Commit("recreated", "tables")

\* a sink that commits the entities before it inserts the facts
InsertCountriesCommitting ==
    /\ step = "tables"
    /\ \/ /\ ~CountriesKeyClash(work.countries \o CountriesOf(final_df))
          /\ work' = [work EXCEPT !.countries = @ \o CountriesOf(final_df)]
          /\ committed' = work'
          /\ Goes("countries")
          /\ UNCHANGED <<db_exists, conn, conns_open>>
       \/ /\ CountriesKeyClash(work.countries \o CountriesOf(final_df))
          /\ Handler("UniqueViolation", FALSE, conn, conns_open)
          /\ UNCHANGED <<db_exists, run>>
       \/ /\ Handler("OperationalError", TRUE, conn, conns_open)
          /\ UNCHANGED <<db_exists, run>>
    /\ UNCHANGED <<tvars, final_df>>

\* lines 213-218, inside `with conn:`
InsertCountries ==
    /\ step = "tables"
    /\ \/ /\ ~CountriesKeyClash(work.countries \o CountriesOf(final_df))
          /\ work' = [work EXCEPT !.countries = @ \o CountriesOf(final_df)]
          /\ Goes("countries")
          /\ UNCHANGED <<db_exists, committed, conn, conns_open>>
       \/ /\ CountriesKeyClash(work.countries \o CountriesOf(final_df))
          /\ Handler("UniqueViolation", FALSE, conn, conns_open)
          /\ UNCHANGED <<db_exists, run>>
       \/ /\ Handler("OperationalError", TRUE, conn, conns_open)
          /\ UNCHANGED <<db_exists, run>>
    /\ UNCHANGED <<tvars, final_df>>

\* lines 221-226, inside `with conn:`
InsertFacts ==
    /\ step = "countries"
    /\ \/ /\ ~(work.pk_facts /\ FactsKeyClash(work.facts \o FactsOf(final_df)))
          /\ work' = [work EXCEPT !.facts = @ \o FactsOf(final_df)]
          /\ Goes("facts")
          /\ UNCHANGED <<db_exists, committed, conn, conns_open>>
       \/ /\ work.pk_facts /\ FactsKeyClash(work.facts \o FactsOf(final_df))
          /\ Handler("UniqueViolation", FALSE, conn, conns_open)
          /\ UNCHANGED <<db_exists, run>>
       \/ /\ Handler("OperationalError", TRUE, conn, conns_open)
          /\ UNCHANGED <<db_exists, run>>
    /\ UNCHANGED <<tvars, final_df>>

CommitInserts == Commit("facts", "loaded")

\* lines 232-235: ALTER TABLE facts ADD CONSTRAINT pk_facts PRIMARY KEY
AddConstraint ==
    /\ step = "loaded"
    /\ \/ /\ ~work.pk_facts /\ ~FactsKeyClash(work.facts)
          /\ work' = [work EXCEPT !.pk_facts = TRUE]
          /\ Goes("altered")
          /\ UNCHANGED <<db_exists, committed, conn, conns_open>>
       \/ /\ work.pk_facts
          /\ Handler("InvalidTableDefinition", FALSE, conn, conns_open)
          /\ UNCHANGED <<db_exists, run>>
       \/ /\ ~work.pk_facts /\ FactsKeyClash(work.facts)
          /\ Handler("UniqueViolation", FALSE, conn, conns_open)
          /\ UNCHANGED <<db_exists, run>>
       \/ /\ Handler("OperationalError", TRUE, conn, conns_open)
          /\ UNCHANGED <<db_exists, run>>
    /\ UNCHANGED <<tvars, final_df>>

CommitConstraint == Commit("altered", "constrained")

\* lines 252-253: SELECT COUNT(*) of both tables
Verify ==
    /\ step = "constrained"
    /\ \/ /\ Goes("verified")
          /\ UNCHANGED <<db_exists, committed, work, conn, conns_open>>
       \/ /\ Handler("OperationalError", TRUE, conn, conns_open)
          /\ UNCHANGED <<db_exists, run>>
    /\ UNCHANGED <<tvars, final_df>>

\* lines 260-261: the function returns
Close ==
    /\ step = "verified"
    /\ conns_open' = conns_open \ {conn}
    /\ work' = committed
    /\ step' = "returned"
    /\ committed' = committed
    /\ history' = Append(history, RunRecord("returned", FALSE))
    /\ UNCHANGED <<db_exists, conn, cause, propagated, rolled_back, failed_at,
                   injected, run, tvars, final_df>>

\* load_to_postgres is called again with the same final export, in a new
\* process: the connections of the run before are gone
RunAgain ==
    /\ step \in {"returned", "raised"}
    /\ run < MaxRuns
    /\ run' = run + 1
    /\ step' = "start"
    /\ conn' = "None"
    /\ conns_open' = {}
    /\ work' = committed
    /\ cause' = "none"
    /\ propagated' = "none"
    /\ rolled_back' = FALSE
    /\ failed_at' = "none"
    /\ injected' = FALSE
    /\ UNCHANGED <<db_exists, committed, history, tvars, final_df>>

NextL ==
    \/ Connect1 \/ EnsureDatabase \/ Connect2
    \/ RecreateTables \/ CommitTables
    \/ InsertCountries \/ InsertFacts \/ CommitInserts
    \/ AddConstraint \/ CommitConstraint
    \/ Verify \/ Close \/ RunAgain

SpecL == InitL /\ [][NextL]_vars

(***************************************************************************)
(* Claims about load_to_postgres                                           *)
(***************************************************************************)
\* C4: the committed contents of the store are never a partial load: the
\* facts table is empty or holds one row for every row of the final export,
\* and the entities rows and the facts rows are committed together.
C4_CommittedLoadIsAllOrNothing ==
    \/ committed.countries = <<>> /\ committed.facts = <<>>
    \/ /\ committed.exists
       /\ committed.countries = CountriesOf(final_df)
       /\ committed.facts = FactsOf(final_df)

\* the insert of the facts failed after the entities had been inserted, and
\* the store holds the freshly created, empty tables
C4_FactsInsertFailed ==
    /\ step = "raised"
    /\ failed_at = "countries"
    /\ Len(CountriesOf(final_df)) > 0
    /\ committed = EmptyTables

\* C5: on any failure the active transaction is rolled back and the error
\* that caused the failure is the error that leaves the function.
C5_FailurePropagatesItsCause ==
    step = "raised" => (propagated = cause /\ work = committed)

\* C6: when load_to_postgres has ended, by returning or by raising, every
\* connection it opened is closed.
C6_ConnectionsClosedAtEnd ==
    step \in {"returned", "raised"} => conns_open = {}

\* C10: a run of the sink that follows a run against the same final export
\* ends as that run ended and leaves the same row counts in both tables,
\* unless the environment failed one of the two: nothing the earlier run left
\* behind makes the later run fail or accumulate rows.
C10_RerunLeavesSameCounts ==
    \A i \in 2..Len(history) :
        (~history[i - 1].injected /\ ~history[i].injected) =>
            /\ history[i].outcome = history[i - 1].outcome
            /\ history[i].countries = history[i - 1].countries
            /\ history[i].facts = history[i - 1].facts

\* two runs returned and the store holds a non-empty load
C10_TwoRunsReturned ==
    /\ Len(history) >= 2
    /\ history[1].outcome = "returned"
    /\ history[2].outcome = "returned"
    /\ history[2].facts > 1
    /\ history[2].countries > 1

====
